---- MODULE Spec2Model ----
\* A model of scripts/audit_to_sarif.py: the conversion of Composer and npm
\* audit reports to a SARIF document.
\*
\* Python strings are sequences of one-character strings, so that lower(),
\* concatenation and the formatting of integers are computed, not assumed.
\* A parsed JSON value is a tagged record:
\*   [t |-> "null"], [t |-> "str", s |-> chars], [t |-> "int", n |-> k],
\*   [t |-> "arr", items |-> seq], [t |-> "obj", kv |-> seq of <<key, value>>]
\* (an object keeps its keys in insertion order, as a Python dict does).
EXTENDS Integers, Sequences, FiniteSets, TLC

VARIABLES
    tool,        \* args.tool
    inputFile,   \* what load_json(args.input) meets: an error, or the value parsed
    locationArg, \* args.location
    pc,          \* position in main()
    data,        \* main's data
    location,    \* main's location
    decoder,     \* the decoder main called
    coll,        \* the decoder's advisories / vulnerabilities
    i,           \* position of the decoder's outer loop (1-based)
    j,           \* position of the decoder's inner loop (1-based)
    rules,       \* run["tool"]["driver"]["rules"]
    results,     \* run["results"]
    rule_map,    \* the decoder's rule_map
    outputFile,  \* the documents written to args.output
    status,      \* the process's exit status, once it has exited
    severity,    \* map_level's argument (LevelSpec)
    level        \* map_level's return value (LevelSpec)

vars ==
    <<tool, inputFile, locationArg, pc, data, location, decoder, coll, i, j,
      rules, results, rule_map, outputFile, status, severity, level>>

\* ---------------------------------------------------------------- strings

LowerChars ==
    <<"a", "b", "c", "d", "e", "f", "g", "h", "i", "j", "k", "l", "m", "n", "o", "p", "q", "r", "s", "t", "u", "v", "w", "x", "y", "z">>

UpperChars ==
    <<"A", "B", "C", "D", "E", "F", "G", "H", "I", "J", "K", "L", "M", "N", "O", "P", "Q", "R", "S", "T", "U", "V", "W", "X", "Y", "Z">>

\* str.lower() on one character
LowerChar(c) ==
    IF \E k \in 1..Len(UpperChars) : UpperChars[k] = c
    THEN LowerChars[CHOOSE k \in 1..Len(UpperChars) : UpperChars[k] = c]
    ELSE c

\* str.lower()
Lower(s) ==
    [k \in 1..Len(s) |-> LowerChar(s[k])]

Digits ==
    <<"0", "1", "2", "3", "4", "5", "6", "7", "8", "9">>

\* the decimal text of a non-negative int, as an f-string formats it
RECURSIVE DecStr(_)
DecStr(n) ==
    IF n < 10 THEN <<Digits[n + 1]>>
    ELSE DecStr(n \div 10) \o <<Digits[(n % 10) + 1]>>

\* the string literals of the source
k_advisories ==
    <<"a", "d", "v", "i", "s", "o", "r", "i", "e", "s">>
k_vulnerabilities ==
    <<"v", "u", "l", "n", "e", "r", "a", "b", "i", "l", "i", "t", "i", "e", "s">>
k_auditReportVersion ==
    <<"a", "u", "d", "i", "t", "R", "e", "p", "o", "r", "t", "V", "e", "r", "s", "i", "o", "n">>
k_title ==
    <<"t", "i", "t", "l", "e">>
k_advisory ==
    <<"a", "d", "v", "i", "s", "o", "r", "y">>
k_cve ==
    <<"c", "v", "e">>
k_severity ==
    <<"s", "e", "v", "e", "r", "i", "t", "y">>
k_affectedVersions ==
    <<"a", "f", "f", "e", "c", "t", "e", "d", "V", "e", "r", "s", "i", "o", "n", "s">>
k_affected_versions ==
    <<"a", "f", "f", "e", "c", "t", "e", "d", "_", "v", "e", "r", "s", "i", "o", "n", "s">>
k_link ==
    <<"l", "i", "n", "k">>
k_url ==
    <<"u", "r", "l">>
k_via ==
    <<"v", "i", "a">>
k_name ==
    <<"n", "a", "m", "e">>
k_source ==
    <<"s", "o", "u", "r", "c", "e">>
k_range ==
    <<"r", "a", "n", "g", "e">>
k_module_name ==
    <<"m", "o", "d", "u", "l", "e", "_", "n", "a", "m", "e">>
k_vulnerable_versions ==
    <<"v", "u", "l", "n", "e", "r", "a", "b", "l", "e", "_", "v", "e", "r", "s", "i", "o", "n", "s">>
s_ComposerAdvisory ==
    <<"C", "o", "m", "p", "o", "s", "e", "r", " ", "a", "d", "v", "i", "s", "o", "r", "y">>
s_NpmAdvisory ==
    <<"n", "p", "m", " ", "a", "d", "v", "i", "s", "o", "r", "y">>
s_package ==
    <<"p", "a", "c", "k", "a", "g", "e">>
s_composerPrefix ==
    <<"c", "o", "m", "p", "o", "s", "e", "r", ":">>
s_npmPrefix ==
    <<"n", "p", "m", ":">>
s_colon ==
    <<":">>
s_colonSpace ==
    <<":", " ">>
s_affectedOpen ==
    <<" ", "(", "a", "f", "f", "e", "c", "t", "e", "d", ":", " ">>
s_close ==
    <<")">>
w_critical ==
    <<"c", "r", "i", "t", "i", "c", "a", "l">>
w_high ==
    <<"h", "i", "g", "h">>
w_moderate ==
    <<"m", "o", "d", "e", "r", "a", "t", "e">>
w_medium ==
    <<"m", "e", "d", "i", "u", "m">>
w_low ==
    <<"l", "o", "w">>
w_info ==
    <<"i", "n", "f", "o">>

\* ------------------------------------------------------------ JSON values

Null ==
    [t |-> "null"]

JStr(s) ==
    [t |-> "str", s |-> s]

JInt(n) ==
    [t |-> "int", n |-> n]

JArr(items) ==
    [t |-> "arr", items |-> items]

JObj(kv) ==
    [t |-> "obj", kv |-> kv]

EmptyObj ==
    JObj(<<>>)

\* Python truthiness of a parsed value
Truthy(v) ==
    CASE v.t = "null" -> FALSE
      [] v.t = "str" -> v.s # <<>>
      [] v.t = "int" -> v.n # 0
      [] v.t = "arr" -> v.items # <<>>
      [] v.t = "obj" -> v.kv # <<>>

\* a or b
Or(a, b) ==
    IF Truthy(a) THEN a ELSE b

HasKey(obj, key) ==
    \E k \in 1..Len(obj.kv) : obj.kv[k][1] = key

\* dict.get(key, default)
GetDefault(obj, key, default) ==
    IF HasKey(obj, key)
    THEN obj.kv[CHOOSE k \in 1..Len(obj.kv) : obj.kv[k][1] = key][2]
    ELSE default

\* dict.get(key)
Get(obj, key) ==
    GetDefault(obj, key, Null)

\* f"{v}" of a string or an int
Text(v) ==
    IF v.t = "int" THEN DecStr(v.n) ELSE v.s

\* ---------------------------------------------------------------- map_level

\* severity.lower() raises AttributeError on a truthy value that is no string
map_level_raises(sev) ==
    Truthy(sev) /\ sev.t # "str"

\* map_level without severity.lower()
map_level_case_sensitive(sev) ==
    IF ~Truthy(sev) THEN "warning"
    ELSE IF sev.s \in {w_critical, w_high} THEN "error"
    ELSE IF sev.s \in {w_moderate, w_medium} THEN "warning"
    ELSE IF sev.s \in {w_low, w_info} THEN "note"
    ELSE "warning"

map_level(sev) ==
    IF ~Truthy(sev) THEN "warning"
    ELSE LET lowered == Lower(sev.s) IN
         IF lowered \in {w_critical, w_high} THEN "error"
         ELSE IF lowered \in {w_moderate, w_medium} THEN "warning"
         ELSE IF lowered \in {w_low, w_info} THEN "note"
         ELSE "warning"

\* ---------------------------------------------------------------- inputs

MaxTokenLen == 3

BoundedSeq(S, n) ==
    UNION {[1..k -> S] : k \in 0..n}

UpperChar(c) ==
    IF \E k \in 1..Len(LowerChars) : LowerChars[k] = c
    THEN UpperChars[CHOOSE k \in 1..Len(LowerChars) : LowerChars[k] = c]
    ELSE c

\* every spelling of w in upper and lower case
CaseVariants(w) ==
    {[k \in 1..Len(w) |-> IF m[k] THEN UpperChar(w[k]) ELSE w[k]] :
        m \in [1..Len(w) -> BOOLEAN]}

Keywords ==
    {w_critical, w_high, w_moderate, w_medium, w_low, w_info}

TokenAlphabet ==
    {"l", "o", "w", "L", "O", "W", "i", " "}

\* near misses of the keywords, and tokens of other vocabularies
OtherTokens ==
    {<<"h", "i", "g", "h", " ">>, <<"h", "i", "g">>, <<"H", "I", "G", "H", "E", "R">>,
     <<"c", "r", "i", "t">>, <<"i", "n", "f", "o", "r", "m", "a", "t", "i", "o", "n", "a", "l">>,
     <<"n", "o", "n", "e">>, <<"u", "n", "k", "n", "o", "w", "n">>, <<"m", "e", "d">>,
     <<"1">>, <<"m", "o", "d", "e", "r", "a", "t", "e", "d">>}

SeverityTokens ==
    BoundedSeq(TokenAlphabet, MaxTokenLen) \cup OtherTokens
        \cup UNION {CaseVariants(w) : w \in Keywords}

\* map_level's arguments: an absent severity (None) or a string
SeverityInputs ==
    {Null} \cup {JStr(s) : s \in SeverityTokens}

\* ------------------------------------------------------------ the document

sarif_skeleton(tool_name, info_uri, rules_, results_) ==
    [tool |-> [driver |-> [name |-> tool_name, informationUri |-> info_uri,
                           rules |-> rules_]],
     results |-> results_]

\* the rule add_rule builds
new_rule(rule_id, title, help_uri) ==
    LET base == [id |-> rule_id, name |-> rule_id,
                 shortDescription |-> [text |-> Or(title, rule_id)]]
    IN IF Truthy(help_uri)
       THEN [id |-> base.id, name |-> base.name,
             shortDescription |-> base.shortDescription, helpUri |-> help_uri]
       ELSE base

\* add_rule without rules.append(rule)
add_rule_unlisted(rules_, rule_map_, rule_id, title, help_uri) ==
    [rules |-> rules_,
     rule_map |-> IF rule_id \in DOMAIN rule_map_ THEN rule_map_
                  ELSE rule_map_ @@ (rule_id :> new_rule(rule_id, title, help_uri))]

\* add_rule without the test of rule_map
add_rule_undeduplicated(rules_, rule_map_, rule_id, title, help_uri) ==
    [rules |-> Append(rules_, new_rule(rule_id, title, help_uri)),
     rule_map |-> IF rule_id \in DOMAIN rule_map_ THEN rule_map_
                  ELSE rule_map_ @@ (rule_id :> new_rule(rule_id, title, help_uri))]

\* add_rule overwriting the rule of a registered id
add_rule_last_write_wins(rules_, rule_map_, rule_id, title, help_uri) ==
    IF rule_id \in DOMAIN rule_map_
    THEN [rules |-> [m \in 1..Len(rules_) |->
                        IF rules_[m].id = rule_id
                        THEN new_rule(rule_id, title, help_uri) ELSE rules_[m]],
          rule_map |-> [rule_map_ EXCEPT ![rule_id] = new_rule(rule_id, title, help_uri)]]
    ELSE [rules |-> Append(rules_, new_rule(rule_id, title, help_uri)),
          rule_map |-> rule_map_ @@ (rule_id :> new_rule(rule_id, title, help_uri))]

\* add_rule's effect on (rules, rule_map)
add_rule(rules_, rule_map_, rule_id, title, help_uri) ==
    IF rule_id \in DOMAIN rule_map_
    THEN [rules |-> rules_, rule_map |-> rule_map_]
    ELSE [rules |-> Append(rules_, new_rule(rule_id, title, help_uri)),
          rule_map |-> rule_map_ @@ (rule_id :> new_rule(rule_id, title, help_uri))]

\* add_result's effect on results
add_result(results_, rule_id, level_, message, location_) ==
    LET base == [ruleId |-> rule_id, level |-> level_, message |-> [text |-> message]]
        result == IF Truthy(location_)
                  THEN [ruleId |-> base.ruleId, level |-> base.level,
                        message |-> base.message,
                        locations |-> <<[physicalLocation |->
                            [artifactLocation |-> [uri |-> location_]]]>>]
                  ELSE base
    IN Append(results_, result)

\* f"{package}: {title}", then f"{message} (affected: {affected})" if affected
message_text(package, title, affected) ==
    LET message == package \o s_colonSpace \o Text(title)
    IN JStr(IF Truthy(affected)
            THEN message \o s_affectedOpen \o Text(affected) \o s_close
            ELSE message)

\* ------------------------------------------------- what a decoder derives

\* the rule id without the cve
composer_rule_id_by_index(package, advisory, index) ==
    JStr(s_composerPrefix \o package \o s_colon \o DecStr(index))

\* composer_to_sarif's loop body, up to the calls of add_rule and add_result
composer_rule_id(package, advisory, index) ==
    JStr(s_composerPrefix \o package \o s_colon
            \o Text(Or(Get(advisory, k_cve), JInt(index))))

composer_finding(package, advisory, index) ==
    LET title == Or(Or(Get(advisory, k_title), Get(advisory, k_advisory)),
                    JStr(s_ComposerAdvisory))
        affected == Or(Get(advisory, k_affectedVersions),
                       Get(advisory, k_affected_versions))
    IN [rule_id |-> composer_rule_id(package, advisory, index),
        title |-> title,
        severity |-> Get(advisory, k_severity),
        message |-> message_text(package, title, affected),
        help_uri |-> Or(Get(advisory, k_link), Get(advisory, k_url))]

\* the package's severity before the entry's
npm_v7_severity_package_first(entry, info) ==
    Or(Get(info, k_severity), Get(entry, k_severity))

\* npm_v7_to_sarif's loop body
npm_v7_severity(entry, info) ==
    Or(Get(entry, k_severity), Get(info, k_severity))

npm_v7_affected(entry, info) ==
    Or(Get(entry, k_range), Get(info, k_range))

npm_v7_finding(package, info, entry) ==
    LET title == Or(Or(Get(entry, k_title), Get(entry, k_name)), JStr(s_NpmAdvisory))
        source == Or(Or(Get(entry, k_source), Get(entry, k_url)), title)
    IN [rule_id |-> JStr(s_npmPrefix \o package \o s_colon \o Text(source)),
        title |-> title,
        severity |-> npm_v7_severity(entry, info),
        message |-> message_text(package, title, npm_v7_affected(entry, info)),
        help_uri |-> Get(entry, k_url)]

\* npm_v6_to_sarif's loop body
npm_v6_finding(advisory_id, advisory) ==
    LET package == Or(Or(Get(advisory, k_module_name), Get(advisory, k_name)),
                      JStr(s_package))
        title == Or(Get(advisory, k_title), JStr(s_NpmAdvisory))
    IN [rule_id |-> JStr(s_npmPrefix \o Text(package) \o s_colon \o advisory_id),
        title |-> title,
        severity |-> Get(advisory, k_severity),
        message |-> message_text(Text(package), title,
                                 Get(advisory, k_vulnerable_versions)),
        help_uri |-> Get(advisory, k_url)]

\* what a for loop iterates: a list's items, a dict's keys, a string's characters
Iterable(v) ==
    v.t \in {"arr", "obj", "str"}

Iterate(v) ==
    CASE v.t = "arr" -> v.items
      [] v.t = "obj" -> [k \in 1..Len(v.kv) |-> JStr(v.kv[k][1])]
      [] v.t = "str" -> [k \in 1..Len(v.s) |-> JStr(<<v.s[k]>>)]

\* via without the isinstance(via, dict) test
via_of_unwrapped(info) ==
    GetDefault(info, k_via, JArr(<<>>))

\* npm_v7_to_sarif's via: info.get("via", []), a single record wrapped in a list
via_of(info) ==
    LET via == GetDefault(info, k_via, JArr(<<>>))
    IN IF via.t = "obj" THEN JArr(<<via>>) ELSE via

\* ------------------------------------------------------- audit reports

MaxFindings == 2

\* marks a field left out of a record
Absent ==
    [t |-> "absent"]

\* a JSON object of the fields given, those marked Absent left out
Rec(fields) ==
    JObj(SelectSeq(fields, LAMBDA p : p[2] # Absent))

\* Format A: {"advisories": {<package>: [<advisory>, ...]}}
PackageNames ==
    <<<<"p">>, <<"p", ":", "q">>>>

AdvisoriesA ==
    {Rec(<<<<k_title, t>>, <<k_cve, c>>>>) :
        t \in {Absent, JStr(<<"T">>)}, c \in {Absent, JStr(<<"c">>)}}
    \cup
    {Rec(<<<<k_title, JStr(<<"T">>)>>, <<k_cve, c>>>>) :
        c \in {JStr(<<>>), JStr(<<"q", ":", "c">>), JStr(<<"1">>)}}
    \cup
    {Rec(<<<<k_advisory, JStr(<<"U">>)>>, <<k_cve, JStr(<<"c">>)>>,
           <<k_severity, JStr(<<"H", "i", "g", "h">>)>>,
           <<k_affectedVersions, JStr(<<"<", "1">>)>>, <<k_link, JStr(<<"h">>)>>>>),
     Rec(<<<<k_title, JStr(<<"T">>)>>, <<k_cve, JStr(<<"c">>)>>,
           <<k_severity, JStr(<<"l", "o", "w">>)>>,
           <<k_affected_versions, JStr(<<"<", "2">>)>>, <<k_url, JStr(<<"g">>)>>>>)}

\* values a decoder cannot use where it expects a record
Malformed ==
    {JStr(<<"x">>), Rec(<<<<k_severity, JInt(5)>>>>)}

\* the findings of flat under one package, or split after cut under two
PackageMaps(flat) ==
    {<<<<PackageNames[1], flat>>>>}
    \cup
    {<<<<PackageNames[1], SubSeq(flat, 1, cut)>>,
       <<PackageNames[2], SubSeq(flat, cut + 1, Len(flat))>>>> :
        cut \in 0..Len(flat)}

DocsA ==
    {JObj(<<<<k_advisories,
              JObj([k \in 1..Len(m) |-> <<m[k][1], JArr(m[k][2])>>])>>>>) :
        m \in UNION {PackageMaps(flat) :
                        flat \in BoundedSeq(AdvisoriesA \cup Malformed, MaxFindings)}}

\* Format B: {"vulnerabilities": {<package>: {"via": <entry-or-list>, ...}}}
ViaEntries ==
    {Rec(<<<<k_title, JStr(<<"T">>)>>, <<k_source, JInt(7)>>, <<k_severity, s>>>>) :
        s \in {Absent, JStr(<<>>), JStr(<<"l", "o", "w">>)}}
    \cup
    {Rec(<<<<k_title, JStr(<<"T">>)>>, <<k_source, JInt(7)>>,
           <<k_severity, JStr(<<>>)>>, <<k_range, JStr(<<>>)>>>>)}
    \cup
    {Rec(<<<<k_name, JStr(<<"N">>)>>, <<k_url, JStr(<<"g">>)>>,
           <<k_range, JStr(<<"<", "1">>)>>>>),
     Rec(<<>>),
     JStr(<<"q">>)}

\* the package-level record around a via field
Info(via, withLevel) ==
    Rec(<<<<k_via, via>>,
          <<k_severity, IF withLevel THEN JStr(<<"h", "i", "g", "h">>) ELSE Absent>>,
          <<k_range, IF withLevel THEN JStr(<<">", "0">>) ELSE Absent>>>>)

\* a via field holding the entries of flat: a list, or a lone record as itself
ViaList(flat) ==
    JArr(flat)

ViaBare(flat) ==
    IF Len(flat) = 1 THEN flat[1] ELSE IF flat = <<>> THEN Absent ELSE JArr(flat)

InfoPlain(flat) ==
    Info(ViaList(flat), FALSE)

InfoLevel(flat) ==
    Info(ViaBare(flat), TRUE)

VulnerabilityMaps ==
    UNION {{[k \in 1..Len(m) |-> <<m[k][1], InfoPlain(m[k][2])>>],
            [k \in 1..Len(m) |-> <<m[k][1], InfoLevel(m[k][2])>>]} :
              m \in UNION {PackageMaps(flat) :
                  flat \in BoundedSeq(ViaEntries \cup {JInt(3)}, MaxFindings)}}

DocsB ==
    {JObj(<<<<k_vulnerabilities, JObj(m)>>>>) : m \in VulnerabilityMaps}

\* Format C: {"advisories": {<advisoryId>: <advisory>}}
AdvisoriesC ==
    {Rec(<<<<k_module_name, JStr(<<"m">>)>>, <<k_title, JStr(<<"T">>)>>,
           <<k_severity, JStr(<<"C", "R", "I", "T", "I", "C", "A", "L">>)>>,
           <<k_vulnerable_versions, JStr(<<"<", "1">>)>>, <<k_url, JStr(<<"g">>)>>>>),
     Rec(<<<<k_name, JStr(<<"n">>)>>, <<k_severity, JStr(<<"i", "n", "f", "o">>)>>>>),
     Rec(<<<<k_module_name, JStr(<<"m">>)>>, <<k_title, JStr(<<"U">>)>>>>),
     Rec(<<>>)}

\* the advisories of flat under the identifiers 101, 102, ...
AdvisoryMap(flat) ==
    [k \in 1..Len(flat) |-> <<DecStr(100 + k), flat[k]>>]

\* the legacy shape, alone or beside the keys main() looks for
DocsC ==
    UNION {{JObj(<<<<k_advisories, JObj(AdvisoryMap(flat))>>>>),
            JObj(<<<<k_auditReportVersion, JInt(2)>>,
                   <<k_advisories, JObj(AdvisoryMap(flat))>>>>),
            JObj(<<<<k_advisories, JObj(AdvisoryMap(flat))>>,
                   <<k_vulnerabilities, JObj(<<>>)>>>>)} :
              flat \in BoundedSeq(AdvisoriesC \cup Malformed, MaxFindings)}

\* the example of Format A: {"advisories": {"left-pad": [{"title": "Regex DoS",
\* "severity": "high", "cve": "CVE-2020-1", "affectedVersions": "<1.3.0"}]}}
s_leftPad ==
    <<"l", "e", "f", "t", "-", "p", "a", "d">>

s_CVE_2020_1 ==
    <<"C", "V", "E", "-", "2", "0", "2", "0", "-", "1">>

LeftPadExample ==
    JObj(<<<<k_advisories, JObj(<<<<s_leftPad, JArr(<<
        Rec(<<<<k_title, JStr(<<"R", "e", "g", "e", "x", " ", "D", "o", "S">>)>>,
              <<k_severity, JStr(<<"h", "i", "g", "h">>)>>,
              <<k_cve, JStr(s_CVE_2020_1)>>,
              <<k_affectedVersions, JStr(<<"<", "1", ".", "3", ".", "0">>)>>>>)>>)>>>>)>>>>)

\* the example, and documents that are valid JSON of none of the shapes
OtherDocs ==
    {Null, JArr(<<JStr(k_vulnerabilities)>>), JObj(<<>>), LeftPadExample,
     JObj(<<<<k_advisories, JArr(<<>>)>>>>),
     JObj(<<<<k_advisories, JObj(<<<<PackageNames[1], Null>>>>)>>>>),
     JObj(<<<<k_vulnerabilities, JObj(<<<<PackageNames[1], Rec(<<<<k_via, Null>>>>)>>>>)>>>>),
     JObj(<<<<k_vulnerabilities, JObj(<<<<PackageNames[1], Rec(<<<<k_via, JStr(<<"q", "r">>)>>>>)>>>>)>>>>)}

Docs ==
    DocsA \cup DocsB \cup DocsC \cup OtherDocs

\* what load_json meets
InputFiles ==
    {[outcome |-> o, value |-> Null] :
        o \in {"OSError", "JSONDecodeError", "UnicodeDecodeError"}}
    \cup {[outcome |-> "ok", value |-> d] : d \in Docs}

\* --location: the default "", or a path
Locations ==
    {JStr(<<>>), JStr(<<"c", ".", "l", "o", "c", "k">>)}

\* ------------------------------------------------- map_level on its own

\* main() is not running
Idle ==
    /\ tool = "composer"
    /\ inputFile = [outcome |-> "OSError", value |-> Null]
    /\ locationArg = <<>>
    /\ pc = "idle"
    /\ data = Null
    /\ location = JStr(<<>>)
    /\ decoder = "none"
    /\ coll = Null
    /\ i = 1
    /\ j = 1
    /\ rules = <<>>
    /\ results = <<>>
    /\ rule_map = <<>>
    /\ outputFile = <<>>
    /\ status = <<>>

LevelInit ==
    /\ Idle
    /\ severity \in SeverityInputs
    /\ level = "pending"

MapLevelCall ==
    /\ level = "pending"
    /\ level' = map_level(severity)
    /\ UNCHANGED <<tool, inputFile, locationArg, pc, data, location, decoder, coll,
                   i, j, rules, results, rule_map, outputFile, status, severity>>

LevelNext ==
    MapLevelCall

LevelSpec ==
    LevelInit /\ [][LevelNext]_vars

\* C4: map_level returns a level for every string or absent severity: "error"
\* exactly for critical and high, "note" exactly for low and info, in any
\* letter case, and "warning" for everything else (moderate, medium, the empty
\* string, None, unrecognized tokens).
MapLevelTable ==
    level # "pending" =>
        /\ level \in {"error", "warning", "note"}
        /\ level = "error" <=>
              /\ severity.t = "str"
              /\ \E w \in {w_critical, w_high} :
                    /\ Len(severity.s) = Len(w)
                    /\ \A k \in 1..Len(w) : severity.s[k] \in {w[k], UpperChar(w[k])}
        /\ level = "note" <=>
              /\ severity.t = "str"
              /\ \E w \in {w_low, w_info} :
                    /\ Len(severity.s) = Len(w)
                    /\ \A k \in 1..Len(w) : severity.s[k] \in {w[k], UpperChar(w[k])}

\* a mixed-case "critical" was mapped
MapLevelWitness ==
    /\ level = "error"
    /\ severity = JStr(<<"C", "r", "i", "t", "i", "c", "A", "L">>)

\* ------------------------------------------------------------------ main

Init ==
    /\ tool \in {"composer", "npm"}
    /\ inputFile \in InputFiles
    /\ locationArg \in Locations
    /\ pc = "start"
    /\ data = Null
    /\ location = JStr(<<>>)
    /\ decoder = "none"
    /\ coll = Null
    /\ i = 1
    /\ j = 1
    /\ rules = <<>>
    /\ results = <<>>
    /\ rule_map = <<>>
    /\ outputFile = <<>>
    /\ status = <<>>
    /\ severity = Null
    /\ level = "pending"

\* an exception nothing catches: the interpreter prints the traceback and
\* the process exits with status 1
Uncaught ==
    /\ pc' = "aborted"
    /\ status' = <<1>>

\* main(), up to the except clause
LoadJson ==
    /\ pc = "start"
    /\ IF inputFile.outcome = "ok"
       THEN /\ data' = inputFile.value
            /\ pc' = "dispatch"
            /\ UNCHANGED status
       ELSE IF inputFile.outcome \in {"OSError", "JSONDecodeError"}
       THEN /\ pc' = "exited"
            /\ status' = <<2>>
            /\ UNCHANGED data
       ELSE /\ Uncaught
            /\ UNCHANGED data
    /\ UNCHANGED <<tool, inputFile, locationArg, location, decoder, coll, i, j,
                   rules, results, rule_map, outputFile, severity, level>>

\* resolve_location returning "" for a path it does not return at line 159
resolve_location_dropped(preferred) ==
    JStr(<<>>)

\* both branches return preferred, whether or not the path exists
resolve_location(preferred) ==
    preferred

\* key in data
Contains(container, key) ==
    IF container.t = "obj" THEN HasKey(container, key)
    ELSE \E k \in 1..Len(container.items) : container.items[k] = JStr(key)

\* the choice by the key vulnerabilities alone
select_decoder_by_vulnerabilities(tool_, data_) ==
    IF tool_ = "composer" THEN "composer_to_sarif"
    ELSE IF Contains(data_, k_vulnerabilities) THEN "npm_v7_to_sarif"
    ELSE "npm_v6_to_sarif"

\* the decoder main() calls
select_decoder(tool_, data_) ==
    IF tool_ = "composer" THEN "composer_to_sarif"
    ELSE IF Contains(data_, k_auditReportVersion) \/ Contains(data_, k_vulnerabilities)
    THEN "npm_v7_to_sarif"
    ELSE "npm_v6_to_sarif"

\* the key a decoder reads its collection from
collection_key(decoder_) ==
    IF decoder_ = "npm_v7_to_sarif" THEN k_vulnerabilities ELSE k_advisories

\* main() from resolve_location to the call of the decoder, and the decoder
\* up to its loop
Dispatch ==
    /\ pc = "dispatch"
    /\ location' = resolve_location(locationArg)
    /\ IF tool = "npm" /\ data.t \notin {"obj", "arr"}
       THEN /\ Uncaught
            /\ UNCHANGED <<decoder, coll>>
       ELSE /\ decoder' = select_decoder(tool, data)
            /\ IF data.t # "obj"
               THEN /\ Uncaught
                    /\ UNCHANGED coll
               ELSE /\ coll' = GetDefault(data, collection_key(decoder'), EmptyObj)
                    /\ pc' = "decoding"
                    /\ UNCHANGED status
    /\ rules' = <<>>
    /\ results' = <<>>
    /\ rule_map' = <<>>
    /\ i' = 1
    /\ j' = 1
    /\ UNCHANGED <<tool, inputFile, locationArg, data, outputFile, severity, level>>

\* a loop body up to add_rule(rules, rule_map, rule_id, title, help_uri)
RegisterRule(f) ==
    LET reg == add_rule(rules, rule_map, f.rule_id, f.title, f.help_uri)
    IN /\ rules' = reg.rules
       /\ rule_map' = reg.rule_map
       /\ pc' = "add_result"
       /\ UNCHANGED <<i, j, results, status>>

\* the loop raises before it changes the document
Raise ==
    /\ Uncaught
    /\ UNCHANGED <<i, j, rules, results, rule_map>>

\* the decoder returns sarif
Return ==
    /\ pc' = "write"
    /\ UNCHANGED <<i, j, rules, results, rule_map, status>>

\* the inner loop is exhausted: the outer loop takes the next item
NextItem ==
    /\ i' = i + 1
    /\ j' = 1
    /\ UNCHANGED <<pc, rules, results, rule_map, status>>

\* one step of composer_to_sarif's loops
ComposerStep ==
    /\ pc = "decoding"
    /\ decoder = "composer_to_sarif"
    /\ IF coll.t # "obj" THEN Raise
       ELSE IF i > Len(coll.kv) THEN Return
       ELSE LET package == coll.kv[i][1]
                entries == coll.kv[i][2]
            IN IF ~Iterable(entries) THEN Raise
               ELSE IF j > Len(Iterate(entries)) THEN NextItem
               ELSE LET advisory == Iterate(entries)[j]
                    IN IF advisory.t # "obj" THEN Raise
                       ELSE RegisterRule(composer_finding(package, advisory, j - 1))
    /\ UNCHANGED <<tool, inputFile, locationArg, data, location, decoder, coll,
                   outputFile, severity, level>>

\* one step of npm_v7_to_sarif's loops
NpmV7Step ==
    /\ pc = "decoding"
    /\ decoder = "npm_v7_to_sarif"
    /\ IF coll.t # "obj" THEN Raise
       ELSE IF i > Len(coll.kv) THEN Return
       ELSE LET package == coll.kv[i][1]
                info == coll.kv[i][2]
            IN IF info.t # "obj" THEN Raise
               ELSE IF ~Iterable(via_of(info)) THEN Raise
               ELSE IF j > Len(Iterate(via_of(info))) THEN NextItem
               ELSE LET entry == Iterate(via_of(info))[j]
                    IN IF entry.t = "str"
                       THEN /\ j' = j + 1
                            /\ UNCHANGED <<i, pc, rules, results, rule_map, status>>
                       ELSE IF entry.t # "obj" THEN Raise
                       ELSE RegisterRule(npm_v7_finding(package, info, entry))
    /\ UNCHANGED <<tool, inputFile, locationArg, data, location, decoder, coll,
                   outputFile, severity, level>>

\* one step of npm_v6_to_sarif's loop
NpmV6Step ==
    /\ pc = "decoding"
    /\ decoder = "npm_v6_to_sarif"
    /\ IF coll.t # "obj" THEN Raise
       ELSE IF i > Len(coll.kv) THEN Return
       ELSE LET advisory_id == coll.kv[i][1]
                advisory == coll.kv[i][2]
            IN IF advisory.t # "obj" THEN Raise
               ELSE RegisterRule(npm_v6_finding(advisory_id, advisory))
    /\ UNCHANGED <<tool, inputFile, locationArg, data, location, decoder, coll,
                   outputFile, severity, level>>

\* the finding of the loop body the decoder is in
CurrentFinding ==
    LET key == coll.kv[i][1]
        value == coll.kv[i][2]
    IN CASE decoder = "composer_to_sarif" ->
              composer_finding(key, Iterate(value)[j], j - 1)
         [] decoder = "npm_v7_to_sarif" ->
              npm_v7_finding(key, value, Iterate(via_of(value))[j])
         [] decoder = "npm_v6_to_sarif" ->
              npm_v6_finding(key, value)

\* the last line of a loop body:
\* add_result(results, rule_id, map_level(severity), message, location)
AddResult ==
    /\ pc = "add_result"
    /\ IF map_level_raises(CurrentFinding.severity)
       THEN /\ Uncaught
            /\ UNCHANGED <<i, j, results>>
       ELSE /\ results' = add_result(results, CurrentFinding.rule_id,
                                     map_level(CurrentFinding.severity),
                                     CurrentFinding.message, location)
            /\ pc' = "decoding"
            /\ i' = IF decoder = "npm_v6_to_sarif" THEN i + 1 ELSE i
            /\ j' = IF decoder = "npm_v6_to_sarif" THEN j ELSE j + 1
            /\ UNCHANGED status
    /\ UNCHANGED <<tool, inputFile, locationArg, data, location, decoder, coll,
                   rules, rule_map, outputFile, severity, level>>

\* the document a decoder returns
sarif_of(decoder_, rules_, results_) ==
    IF decoder_ = "composer_to_sarif"
    THEN sarif_skeleton("Composer Audit", "https://getcomposer.org/doc/03-cli.md#audit",
                        rules_, results_)
    ELSE sarif_skeleton("npm audit", "https://docs.npmjs.com/cli/v9/commands/npm-audit",
                        rules_, results_)

\* write_sarif(args.output, sarif); return 0
WriteSarif ==
    /\ pc = "write"
    /\ outputFile' = Append(outputFile, sarif_of(decoder, rules, results))
    /\ pc' = "exited"
    /\ status' = <<0>>
    /\ UNCHANGED <<tool, inputFile, locationArg, data, location, decoder, coll, i, j,
                   rules, results, rule_map, severity, level>>

Next ==
    \/ LoadJson
    \/ Dispatch
    \/ ComposerStep
    \/ NpmV7Step
    \/ NpmV6Step
    \/ AddResult
    \/ WriteSarif

Spec ==
    Init /\ [][Next]_vars

\* ----------------------------------------------------------------- claims

\* the decoder returned: its loops ran to completion
Returned ==
    pc = "write" \/ (pc = "exited" /\ status = <<0>>)

RuleIds(rules_) ==
    {rules_[m].id : m \in 1..Len(rules_)}

\* the documents to look at: the one under construction and those written
Documents ==
    {[rules |-> rules, results |-> results]}
        \cup {[rules |-> outputFile[k].tool.driver.rules,
               results |-> outputFile[k].results] : k \in 1..Len(outputFile)}

RECURSIVE Flatten(_)
Flatten(seqs) ==
    IF seqs = <<>> THEN <<>> ELSE Head(seqs) \o Flatten(Tail(seqs))

\* the advisories composer_to_sarif is given, in map and sequence order
ComposerFindings ==
    Flatten([k \in 1..Len(coll.kv) |->
        [m \in 1..Len(Iterate(coll.kv[k][2])) |->
            [package |-> coll.kv[k][1],
             advisory |-> Iterate(coll.kv[k][2])[m],
             index |-> m - 1]]])

\* the via entries of a package that are not bare strings
ViaRecords(info) ==
    IF ~HasKey(info, k_via) THEN <<>>
    ELSE LET via == Get(info, k_via)
         IN CASE via.t = "obj" -> <<via>>
              [] via.t = "arr" -> SelectSeq(via.items, LAMBDA e : e.t # "str")
              [] OTHER -> <<>>

\* the record-valued via entries npm_v7_to_sarif is given, in encounter order
NpmV7Findings ==
    Flatten([k \in 1..Len(coll.kv) |->
        [m \in 1..Len(ViaRecords(coll.kv[k][2])) |->
            [package |-> coll.kv[k][1],
             info |-> coll.kv[k][2],
             entry |-> ViaRecords(coll.kv[k][2])[m]]]])

\* C1: at every point of decoding and in every document written, each
\* Result's ruleId is the id of a Rule of the same document.
NoDanglingReferences ==
    \A doc \in Documents :
        \A k \in 1..Len(doc.results) : doc.results[k].ruleId \in RuleIds(doc.rules)

\* npm_v7_to_sarif wrote a document of two Results
NoDanglingWitness ==
    /\ decoder = "npm_v7_to_sarif"
    /\ outputFile # <<>>
    /\ Len(outputFile[1].results) = 2
    /\ Len(outputFile[1].tool.driver.rules) = 2

\* C2: no two Rules of a document share an id, and every Rule of a returned
\* document is referenced: findings deriving one identifier yield one Rule
\* and a Result each.
UniqueRuleIds ==
    /\ \A doc \in Documents :
          /\ \A m, n \in 1..Len(doc.rules) :
                doc.rules[m].id = doc.rules[n].id => m = n
          /\ Returned =>
                \A m \in 1..Len(doc.rules) :
                   \E k \in 1..Len(doc.results) : doc.results[k].ruleId = doc.rules[m].id
    /\ decoder = "composer_to_sarif" /\ Returned =>
          Len(results) = Len(ComposerFindings)
    /\ DOMAIN rule_map = RuleIds(rules)

\* two findings of one identifier were written as one Rule and two Results
UniqueRuleIdsWitness ==
    /\ outputFile # <<>>
    /\ Len(outputFile[1].tool.driver.rules) = 1
    /\ Len(outputFile[1].results) = 2
    /\ outputFile[1].results[1].ruleId = outputFile[1].results[2].ruleId

\* C3: a step never removes, reorders or changes a Rule: the rules before it
\* are a prefix of the rules after it, add_rule with a registered id leaves
\* rules and rule_map unchanged, and a Rule appended carries an id not seen
\* before.
RulesFirstWriteWins ==
    [][/\ Len(rules') >= Len(rules)
       /\ \A m \in 1..Len(rules) : rules'[m] = rules[m]
       /\ Len(rules') <= Len(rules) + 1
       /\ Len(rules') = Len(rules) + 1 =>
             rules'[Len(rules')].id \notin RuleIds(rules)
       /\ (pc = "decoding" /\ pc' = "add_result"
             /\ CurrentFinding.rule_id \in RuleIds(rules)) =>
             rules' = rules /\ rule_map' = rule_map]_vars

\* a second finding of a registered id came with another title and a help
\* link, and the Rule kept the first title and no help link
RulesFirstWriteWinsWitness ==
    /\ decoder = "composer_to_sarif"
    /\ Len(rules) = 1
    /\ Len(results) = 2
    /\ results[1].message.text # results[2].message.text
    /\ rules[1].shortDescription.text = JStr(<<"T">>)
    /\ "helpUri" \notin DOMAIN rules[1]
    /\ Get(coll.kv[1][2].items[2], k_link) = JStr(<<"h">>)

\* C5: with a non-empty --location every Result has exactly one location,
\* whose uri is that string; with the empty default no Result has locations.
LocationAttached ==
    \A doc \in Documents :
        \A k \in 1..Len(doc.results) :
            LET r == doc.results[k]
            IN IF locationArg.s # <<>>
               THEN /\ "locations" \in DOMAIN r
                    /\ Len(r.locations) = 1
                    /\ r.locations[1].physicalLocation.artifactLocation.uri = locationArg
               ELSE "locations" \notin DOMAIN r

LocationAttachedWitness ==
    /\ outputFile # <<>>
    /\ Len(outputFile[1].results) = 2
    /\ locationArg.s # <<>>
    /\ "locations" \in DOMAIN outputFile[1].results[2]

\* C6: for composer the decoder is composer_to_sarif whatever the keys; for
\* npm it is npm_v7_to_sarif if the document has the key auditReportVersion
\* or vulnerabilities and npm_v6_to_sarif if it has neither; the decoder
\* chosen is never replaced by another.
DecoderSelection ==
    /\ [](decoder # "none" /\ data.t = "obj" =>
            /\ tool = "composer" => decoder = "composer_to_sarif"
            /\ tool = "npm" /\ (HasKey(data, k_auditReportVersion)
                                  \/ HasKey(data, k_vulnerabilities))
                  => decoder = "npm_v7_to_sarif"
            /\ tool = "npm" /\ ~HasKey(data, k_auditReportVersion)
                            /\ ~HasKey(data, k_vulnerabilities)
                  => decoder = "npm_v6_to_sarif")
    /\ [](pc \in {"decoding", "write"} \/ outputFile # <<>> => decoder # "none")
    /\ [][decoder # "none" => decoder' = decoder]_vars

\* a document with auditReportVersion and a legacy advisories map went to
\* npm_v7_to_sarif
DecoderSelectionWitness ==
    /\ tool = "npm"
    /\ data.t = "obj"
    /\ decoder = "npm_v7_to_sarif"
    /\ HasKey(data, k_auditReportVersion)
    /\ HasKey(data, k_advisories)
    /\ Len(Get(data, k_advisories).kv) = 2
    /\ pc = "exited"

\* C7: the output is written only after the input was read and the decoder
\* returned; a failed read calls no decoder, writes nothing and exits with
\* status 2; a decoder that raises writes nothing and does not exit with 0.
NoPartialOutput ==
    /\ outputFile # <<>> =>
          inputFile.outcome = "ok" /\ decoder # "none" /\ status = <<0>>
    /\ inputFile.outcome # "ok" /\ pc \in {"exited", "aborted"} =>
          decoder = "none" /\ outputFile = <<>> /\ status = <<2>>
    /\ pc = "aborted" /\ decoder # "none" =>
          outputFile = <<>> /\ status # <<0>>

\* C8: npm_v7_to_sarif returns one Result per via entry that is not a bare
\* string, in encounter order, each about its own package and entry; a lone
\* record is one entry, and strings and packages without via give nothing.
OneResultPerViaRecord ==
    decoder = "npm_v7_to_sarif" /\ Returned =>
        /\ Len(results) = Len(NpmV7Findings)
        /\ \A k \in 1..Len(results) :
              LET f == NpmV7Findings[k]
                  title == IF HasKey(f.entry, k_title) /\ Truthy(Get(f.entry, k_title))
                           THEN Get(f.entry, k_title).s
                           ELSE IF HasKey(f.entry, k_name) THEN Get(f.entry, k_name).s
                           ELSE s_NpmAdvisory
                  head == f.package \o s_colonSpace \o title
              IN /\ Len(results[k].message.text.s) >= Len(head)
                 /\ SubSeq(results[k].message.text.s, 1, Len(head)) = head
                 /\ SubSeq(results[k].ruleId.s, 1, Len(s_npmPrefix) + Len(f.package) + 1)
                       = s_npmPrefix \o f.package \o s_colon

\* a package whose via is a lone record gave one Result, and a package whose
\* via is a bare string gave none
OneResultPerViaRecordWitness ==
    /\ decoder = "npm_v7_to_sarif"
    /\ pc = "exited"
    /\ status = <<0>>
    /\ Len(results) = 1
    /\ Len(coll.kv) = 2
    /\ Get(coll.kv[1][2], k_via).t = "obj"
    /\ Get(coll.kv[2][2], k_via).t = "str"

\* C9 as stated: the level is the normalization of the entry's severity
\* whenever the entry has a severity field, the package's otherwise; and the
\* message names the entry's range whenever the entry has a range field.
EntrySeverityWheneverPresent ==
    decoder = "npm_v7_to_sarif" /\ Returned /\ Len(results) = Len(NpmV7Findings) =>
        \A k \in 1..Len(results) :
            LET f == NpmV7Findings[k]
                sev == IF HasKey(f.entry, k_severity)
                       THEN Get(f.entry, k_severity) ELSE Get(f.info, k_severity)
                rng == IF HasKey(f.entry, k_range)
                       THEN Get(f.entry, k_range) ELSE Get(f.info, k_range)
            IN /\ results[k].level = map_level(sev)
               /\ results[k].message =
                     [text |-> message_text(f.package, npm_v7_finding(f.package, f.info,
                                                f.entry).title, rng)]

\* C9 amended: the entry's severity is used when it is present and not empty
\* (not None, not ""), the package's otherwise; likewise the range.
EntrySeverityWhenNotEmpty ==
    decoder = "npm_v7_to_sarif" /\ Returned /\ Len(results) = Len(NpmV7Findings) =>
        \A k \in 1..Len(results) :
            LET f == NpmV7Findings[k]
                own(key) == HasKey(f.entry, key) /\ Get(f.entry, key) \notin {Null, JStr(<<>>)}
                sev == IF own(k_severity)
                       THEN Get(f.entry, k_severity) ELSE Get(f.info, k_severity)
                rng == IF own(k_range)
                       THEN Get(f.entry, k_range) ELSE Get(f.info, k_range)
                suffix == IF rng \in {Null, JStr(<<>>)} THEN <<>>
                          ELSE s_affectedOpen \o rng.s \o s_close
                text == results[k].message.text.s
            IN /\ results[k].level = map_level(sev)
               /\ Len(text) >= Len(suffix)
               /\ SubSeq(text, Len(text) - Len(suffix) + 1, Len(text)) = suffix
               /\ suffix = <<>> => text[Len(text)] # ")"

\* an entry with an empty severity and an empty range took both from its
\* package
EntrySeverityWitness ==
    /\ decoder = "npm_v7_to_sarif"
    /\ pc = "exited"
    /\ status = <<0>>
    /\ Len(results) = 2
    /\ Get(NpmV7Findings[1].entry, k_severity) = JStr(<<"l", "o", "w">>)
    /\ Get(NpmV7Findings[1].info, k_severity) = JStr(<<"h", "i", "g", "h">>)
    /\ results[1].level = "note"
    /\ HasKey(NpmV7Findings[2].entry, k_severity)
    /\ Get(NpmV7Findings[2].entry, k_severity) = JStr(<<>>)
    /\ results[2].level = "error"

\* the text after "composer:<package>:" that C10 states: the cve field when
\* the advisory has one, otherwise its index
StatedSuffix(f) ==
    IF HasKey(f.advisory, k_cve) THEN Get(f.advisory, k_cve).s ELSE DecStr(f.index)

\* C10 as stated: the rule id is "composer:", the package, ":" and the cve
\* field when the advisory has one, otherwise its index; and two advisories
\* share a Rule only when they are of the same package and carry the same cve.
SameRuleOnlyForSameCve ==
    decoder = "composer_to_sarif" /\ Returned /\ Len(results) = Len(ComposerFindings) =>
        /\ \A k \in 1..Len(results) :
              results[k].ruleId.s = s_composerPrefix \o ComposerFindings[k].package
                                       \o s_colon \o StatedSuffix(ComposerFindings[k])
        /\ \A k, m \in 1..Len(results) :
              LET f == ComposerFindings[k]
                  g == ComposerFindings[m]
              IN k # m /\ results[k].ruleId = results[m].ruleId =>
                    /\ f.package = g.package
                    /\ HasKey(f.advisory, k_cve)
                    /\ HasKey(g.advisory, k_cve)
                    /\ Get(f.advisory, k_cve) = Get(g.advisory, k_cve)

\* the text after "composer:<package>:": the cve field when it is present and
\* not empty, otherwise the index
DerivedSuffix(f) ==
    IF HasKey(f.advisory, k_cve) /\ Get(f.advisory, k_cve) \notin {Null, JStr(<<>>)}
    THEN Get(f.advisory, k_cve).s
    ELSE DecStr(f.index)

\* C10 amended: the rule id is "composer:", the package, ":" and the cve field
\* when it is present and not empty, otherwise the index; two advisories of
\* the same package and the same non-empty cve share a Rule, and two
\* advisories share a Rule exactly when these texts are equal; the example
\* of left-pad gives one Rule composer:left-pad:CVE-2020-1.
RuleIdOfPackageAndCve ==
    decoder = "composer_to_sarif" /\ Returned /\ Len(results) = Len(ComposerFindings) =>
        /\ \A k \in 1..Len(results) :
              results[k].ruleId.s = s_composerPrefix \o ComposerFindings[k].package
                                       \o s_colon \o DerivedSuffix(ComposerFindings[k])
        /\ \A k, m \in 1..Len(results) :
              LET f == ComposerFindings[k]
                  g == ComposerFindings[m]
              IN /\ (/\ f.package = g.package
                     /\ HasKey(f.advisory, k_cve)
                     /\ Get(f.advisory, k_cve) \notin {Null, JStr(<<>>)}
                     /\ Get(f.advisory, k_cve) = Get(g.advisory, k_cve))
                       => results[k].ruleId = results[m].ruleId
                 /\ results[k].ruleId = results[m].ruleId <=>
                       f.package \o s_colon \o DerivedSuffix(f)
                          = g.package \o s_colon \o DerivedSuffix(g)
        /\ data = LeftPadExample =>
              /\ Len(rules) = 1
              /\ rules[1].id = JStr(s_composerPrefix \o s_leftPad \o s_colon \o s_CVE_2020_1)
              /\ Len(results) = 1
              /\ results[1].level = "error"

\* two advisories without a common cve shared a Rule: the first carries the
\* cve "1", the second has no cve and the index 1
RuleIdWitness ==
    /\ decoder = "composer_to_sarif"
    /\ pc = "exited"
    /\ status = <<0>>
    /\ Len(results) = 2
    /\ Len(rules) = 1
    /\ Get(ComposerFindings[1].advisory, k_cve) = JStr(<<"1">>)
    /\ ~HasKey(ComposerFindings[2].advisory, k_cve)
    /\ ComposerFindings[2].package = ComposerFindings[1].package

====
